---- MODULE Spec2Model ----
(***************************************************************************)
(* Model of openfermioncirq/variational/ansatzes/                          *)
(* swap_network_trotter_hubbard.py: the SwapNetworkTrotterHubbardAnsatz    *)
(* class and the module-level lattice and exponent helpers.                *)
(*                                                                         *)
(* Real numbers (Python floats) are modelled as exact rationals <<n, d>>   *)
(* with d > 0 in lowest terms.  Python's None is the integer None below,   *)
(* which no site or qubit index ever equals.                               *)
(***************************************************************************)
EXTENDS Integers, Sequences, FiniteSets, TLC

VARIABLES self, ret, gens, ops, heap, calls, yielded, evaluated, dip

vars == <<self, ret, gens, ops, heap, calls, yielded, evaluated, dip>>

(***************************************************************************)
(* Bounds of the model.                                                    *)
(***************************************************************************)
MaxDim == 2
MaxIter == 2
MaxExp == 12
ExpDen == 2
MaxShift == 2

None == -1

(***************************************************************************)
(* Exact rational arithmetic standing for float arithmetic.                *)
(***************************************************************************)
Abs(n) == IF n < 0 THEN -n ELSE n
BoolToInt(b) == IF b THEN 1 ELSE 0

RECURSIVE Gcd(_, _)
Gcd(a, b) == IF b = 0 THEN a ELSE Gcd(b, a % b)

Rat(n, d) ==
    LET s == IF d < 0 THEN -1 ELSE 1
        g == Gcd(Abs(n), Abs(d))
    IN  <<(s * n) \div g, (s * d) \div g>>

RInt(n) == <<n, 1>>
RAdd(a, b) == Rat(a[1] * b[2] + b[1] * a[2], a[2] * b[2])
RSub(a, b) == Rat(a[1] * b[2] - b[1] * a[2], a[2] * b[2])
RMul(a, b) == Rat(a[1] * b[1], a[2] * b[2])
RDiv(a, b) == Rat(a[1] * b[2], a[2] * b[1])
RNeg(a) == <<-a[1], a[2]>>
RLe(a, b) == a[1] * b[2] <= b[1] * a[2]
RLt(a, b) == a[1] * b[2] < b[1] * a[2]
\* Python's float % with a positive integer modulus: the result is in [0, m).
RMod(a, m) == Rat(a[1] % (a[2] * m), a[2])
\* a is an integer multiple of the integer m
RIsMultiple(a, m) == a[2] = 1 /\ a[1] % m = 0

(***************************************************************************)
(* _canonicalize_exponent                                                  *)
(***************************************************************************)
CanonicalizeNoBoundaryFix(exponent, period) ==
    LET half == Rat(period, 2)
    IN  RSub(RMod(RAdd(exponent, half), period), half)

_canonicalize_exponent(exponent, period) ==
    LET half == Rat(period, 2)
        e1 == RAdd(exponent, half)
        e2 == RMod(e1, period)
        e3 == RSub(e2, half)
    IN  IF RLe(e3, RNeg(half)) THEN RAdd(e3, RInt(period)) ELSE e3

(***************************************************************************)
(* Lattice geometry                                                        *)
(***************************************************************************)
RightNeighborNoWrap(site, x_dimension, y_dimension, periodic) ==
    IF x_dimension = 1 THEN None
    ELSE IF (site + 1) % x_dimension = 0
         THEN IF periodic THEN site + 1 ELSE None
         ELSE site + 1

_right_neighbor(site, x_dimension, y_dimension, periodic) ==
    IF x_dimension = 1 THEN None
    ELSE IF (site + 1) % x_dimension = 0
         THEN IF periodic THEN site + 1 - x_dimension ELSE None
         ELSE site + 1

BottomNeighborOffByOne(site, x_dimension, y_dimension, periodic) ==
    IF y_dimension = 1 THEN None
    ELSE IF site + x_dimension > x_dimension * y_dimension
         THEN IF periodic
              THEN site + x_dimension - x_dimension * y_dimension
              ELSE None
         ELSE site + x_dimension

_bottom_neighbor(site, x_dimension, y_dimension, periodic) ==
    IF y_dimension = 1 THEN None
    ELSE IF site + x_dimension + 1 > x_dimension * y_dimension
         THEN IF periodic
              THEN site + x_dimension - x_dimension * y_dimension
              ELSE None
         ELSE site + x_dimension

_is_horizontal_edge(p, q, x_dim, y_dim, periodic) ==
    LET n_sites == x_dim * y_dim
    IN  IF (p < n_sites /\ q >= n_sites) \/ (q < n_sites /\ p >= n_sites)
        THEN FALSE
        ELSE LET fold == p >= n_sites /\ q >= n_sites
                 p2 == IF fold THEN p - n_sites ELSE p
                 q2 == IF fold THEN q - n_sites ELSE q
             IN  \/ q2 = _right_neighbor(p2, x_dim, y_dim, periodic)
                 \/ p2 = _right_neighbor(q2, x_dim, y_dim, periodic)

VerticalEdgeUsingRightNeighbor(p, q, x_dim, y_dim, periodic) ==
    LET n_sites == x_dim * y_dim
    IN  IF (p < n_sites /\ q >= n_sites) \/ (q < n_sites /\ p >= n_sites)
        THEN FALSE
        ELSE LET fold == p >= n_sites /\ q >= n_sites
                 p2 == IF fold THEN p - n_sites ELSE p
                 q2 == IF fold THEN q - n_sites ELSE q
             IN  \/ q2 = _right_neighbor(p2, x_dim, y_dim, periodic)
                 \/ p2 = _right_neighbor(q2, x_dim, y_dim, periodic)

_is_vertical_edge(p, q, x_dim, y_dim, periodic) ==
    LET n_sites == x_dim * y_dim
    IN  IF (p < n_sites /\ q >= n_sites) \/ (q < n_sites /\ p >= n_sites)
        THEN FALSE
        ELSE LET fold == p >= n_sites /\ q >= n_sites
                 p2 == IF fold THEN p - n_sites ELSE p
                 q2 == IF fold THEN q - n_sites ELSE q
             IN  \/ q2 = _bottom_neighbor(p2, x_dim, y_dim, periodic)
                 \/ p2 = _bottom_neighbor(q2, x_dim, y_dim, periodic)

_are_same_site_opposite_spin(p, q, n_sites) == Abs(p - q) = n_sites

(***************************************************************************)
(* The two interaction callbacks built by operations().  Each is a         *)
(* generator function: its body, including the read of the enclosing       *)
(* frame's variable i, runs when the returned generator is iterated.  The  *)
(* parameter i is the value of that variable at that moment.               *)
(***************************************************************************)
Gate(kind, sign, letter, i, a, b) ==
    [gate |-> kind, sign |-> sign, letter |-> letter, sub |-> i, on |-> <<a, b>>]

one_and_two_body_interaction(p, q, a, b, i, s) ==
    (IF _is_horizontal_edge(p, q, s.x_dim, s.y_dim, s.periodic)
     THEN <<Gate("ISwapPowGate", -1, "Th", i, a, b)>> ELSE <<>>)
    \o (IF _is_vertical_edge(p, q, s.x_dim, s.y_dim, s.periodic)
        THEN <<Gate("ISwapPowGate", -1, "Tv", i, a, b)>> ELSE <<>>)
    \o (IF _are_same_site_opposite_spin(p, q, s.x_dim * s.y_dim)
        THEN <<Gate("CZPowGate", 1, "V", i, a, b)>> ELSE <<>>)

one_and_two_body_interaction_reversed_order(p, q, a, b, i, s) ==
    (IF _are_same_site_opposite_spin(p, q, s.x_dim * s.y_dim)
     THEN <<Gate("CZPowGate", 1, "V", i, a, b)>> ELSE <<>>)
    \o (IF _is_vertical_edge(p, q, s.x_dim, s.y_dim, s.periodic)
        THEN <<Gate("ISwapPowGate", -1, "Tv", i, a, b)>> ELSE <<>>)
    \o (IF _is_horizontal_edge(p, q, s.x_dim, s.y_dim, s.periodic)
        THEN <<Gate("ISwapPowGate", -1, "Th", i, a, b)>> ELSE <<>>)

(***************************************************************************)
(* Construction                                                            *)
(***************************************************************************)
\* cirq.LineQubit.range(n): qubits 0 .. n-1, none when n <= 0.
LineQubitRange(n) == [k \in 1..(IF n > 0 THEN n ELSE 0) |-> k - 1]

_generate_qubits(s) == LineQubitRange(2 * s.x_dim * s.y_dim)

\* VariationalAnsatz.__init__(qubits): keeps the given qubits or generates
\* them with the _generate_qubits hook.
VariationalAnsatz__init__(s, qubits) ==
    [s EXCEPT !.qubits = IF qubits = <<>> THEN _generate_qubits(s) ELSE qubits,
              !.constructed = TRUE]

\* adiabatic_evolution_time = None is the argument None; the default is
\* 0.1*abs(coulomb)*iterations.  No argument is validated.
__init__(x_dim, y_dim, tunneling, coulomb, periodic, iterations, adiabatic_evolution_time) ==
    VariationalAnsatz__init__(
        [constructed |-> FALSE, x_dim |-> x_dim, y_dim |-> y_dim,
         tunneling |-> tunneling, coulomb |-> coulomb, periodic |-> periodic,
         iterations |-> iterations,
         adiabatic_evolution_time |->
             IF adiabatic_evolution_time = None
             THEN RMul(RMul(Rat(1, 10), RInt(Abs(coulomb))), RInt(iterations))
             ELSE RInt(adiabatic_evolution_time),
         qubits |-> <<>>],
        <<>>)

(***************************************************************************)
(* params(): a generator.  A generator object is [pc, i]; pc is where it   *)
(* is suspended: "start" (body not begun), "Th", "Tv", "V" (at that        *)
(* yield) or "done" (StopIteration).                                       *)
(***************************************************************************)
NewGenerator == [pc |-> "start", i |-> None]

ParamsAfterThAlways(i, s) == [pc |-> "Tv", i |-> i]

ParamsAfterTh(i, s) ==
    IF s.y_dim > 1 THEN [pc |-> "Tv", i |-> i] ELSE [pc |-> "V", i |-> i]

ParamsBody(i, s) ==
    IF s.x_dim > 1 THEN [pc |-> "Th", i |-> i] ELSE ParamsAfterTh(i, s)

ParamsLoop(i, s) ==
    IF i < s.iterations THEN ParamsBody(i, s) ELSE [pc |-> "done", i |-> i - 1]

\* next(generator): run the body up to the next yield or to its end.
params_next(g, s) ==
    CASE g.pc = "start" -> ParamsLoop(0, s)
      [] g.pc = "Th" -> ParamsAfterTh(g.i, s)
      [] g.pc = "Tv" -> [pc |-> "V", i |-> g.i]
      [] g.pc = "V" -> ParamsLoop(g.i + 1, s)
      [] OTHER -> g

\* The value yielded at a suspension point.
LetterWithSubscripts(letter, i) == [letter |-> letter, subscripts |-> <<i>>]
Yielded(g) == LetterWithSubscripts(g.pc, g.i)

RECURSIVE ParamsFrom(_, _)
ParamsFrom(g, s) ==
    LET h == params_next(g, s)
    IN  IF h.pc = "done" THEN <<>> ELSE <<Yielded(h)>> \o ParamsFrom(h, s)

\* list(self.params())
ParamsList(s) == ParamsFrom(NewGenerator, s)

(***************************************************************************)
(* swap_network(qubits, operation, fermionic, offset): the odd-even        *)
(* transposition network.  Layer layer_num visits the adjacent positions   *)
(* (i, i+1) with i = (layer_num + offset) % 2, +2, ... and, for each,      *)
(* calls operation(p, q, qubits[i], qubits[i+1]) with the modes p, q now   *)
(* at those positions, then swaps the two modes.  The result keeps, per    *)
(* layer and adjacency, the generator the callback returned (not yet       *)
(* iterated) and the swap gate that follows it.                            *)
(***************************************************************************)
Reverse(seq) == [k \in 1..Len(seq) |-> seq[Len(seq) + 1 - k]]

\* range(lowest, n - 1, 2) as a sequence of 0-based positions
ActivePositions(n, lowest) ==
    [k \in 1..(IF n > lowest THEN (n - lowest) \div 2 ELSE 0) |->
        lowest + 2 * (k - 1)]

SwapLayer(order, qubits, operation, fermionic, active) ==
    [k \in 1..Len(active) |->
        [p |-> order[active[k] + 1], q |-> order[active[k] + 2],
         a |-> qubits[active[k] + 1], b |-> qubits[active[k] + 2],
         operation |-> operation,
         swap |-> IF fermionic THEN "FSWAP" ELSE "SWAP"]]

OrderAfter(order, active) ==
    [pos \in 1..Len(order) |->
        IF \E k \in 1..Len(active) : active[k] + 1 = pos THEN order[pos + 1]
        ELSE IF \E k \in 1..Len(active) : active[k] + 2 = pos THEN order[pos - 1]
        ELSE order[pos]]

RECURSIVE SwapLayers(_, _, _, _, _, _)
SwapLayers(order, layer_num, qubits, operation, fermionic, offset) ==
    IF layer_num >= Len(qubits) THEN <<>>
    ELSE LET active == ActivePositions(Len(qubits),
                                       (layer_num + BoolToInt(offset)) % 2)
         IN  <<SwapLayer(order, qubits, operation, fermionic, active)>>
             \o SwapLayers(OrderAfter(order, active), layer_num + 1,
                           qubits, operation, fermionic, offset)

swap_network(qubits, operation, fermionic, offset) ==
    SwapLayers([k \in 1..Len(qubits) |-> k - 1], 0,
               qubits, operation, fermionic, offset)

(***************************************************************************)
(* operations(qubits): a generator.  Lists live in heap and variables hold *)
(* references, so that a reversal that builds a new list differs from one  *)
(* that changes the caller's list.                                         *)
(***************************************************************************)
\* qubits[:] : a new list, same order
SliceCopy(h, ref) == [heap |-> Append(h, h[ref]), ref |-> Len(h) + 1]

\* qubits.reverse() : the same list, reversed in place
ReverseInPlace(h, ref) ==
    [heap |-> [h EXCEPT ![ref] = Reverse(h[ref])], ref |-> ref]

\* qubits[::-1] : a new list holding the reverse; the old list is untouched
ReverseSlice(h, ref) == [heap |-> Append(h, Reverse(h[ref])), ref |-> Len(h) + 1]

\* Iterating the generator one callback call returned, while the enclosing
\* frame's variable i holds the value i.
IterateCallback(entry, i, s) ==
    IF entry.operation = "one_and_two_body_interaction"
    THEN one_and_two_body_interaction(entry.p, entry.q, entry.a, entry.b, i, s)
    ELSE one_and_two_body_interaction_reversed_order(
             entry.p, entry.q, entry.a, entry.b, i, s)

\* Flattening one yielded swap network: every callback generator is iterated.
Flatten(network, i, s) ==
    [l \in 1..Len(network) |->
        [k \in 1..Len(network[l]) |->
            [gates |-> IterateCallback(network[l][k], i, s),
             swap |-> network[l][k].swap,
             on |-> <<network[l][k].a, network[l][k].b>>]]]

(***************************************************************************)
(* default_initial_params()                                                *)
(***************************************************************************)
\* numpy.pi, itself a rational approximation of pi; 22/7 stands for it.
numpy_pi == <<22, 7>>

ProgressAtSegmentStart(i, iterations) == RDiv(RInt(i), RInt(iterations))

\* 0.5 * (2 * i + 1) / self.iterations
interpolation_progress(i, iterations) ==
    RDiv(RMul(Rat(1, 2), RInt(2 * i + 1)), RInt(iterations))

\* The value appended for one (param, scale_factor) of the zip.
DefaultParam(param, scale_factor, step_time, s) ==
    IF param.letter = "Th" \/ param.letter = "Tv"
    THEN RDiv(_canonicalize_exponent(
                  RDiv(RMul(RNeg(RInt(s.tunneling)), step_time), numpy_pi), 4),
              RInt(scale_factor))
    ELSE RDiv(_canonicalize_exponent(
                  RDiv(RMul(RMul(RMul(Rat(-1, 2), RInt(s.coulomb)),
                                 interpolation_progress(param.subscripts[1],
                                                        s.iterations)),
                            step_time),
                       numpy_pi), 2),
              RInt(scale_factor))

\* VariationalAnsatz.param_scale_factors(): one scale factor per parameter,
\* in params() order; all 1 by default, or distinct per position.
ParamScaleFactors(s) ==
    { [k \in 1..Len(ParamsList(s)) |-> 1],
      [k \in 1..Len(ParamsList(s)) |-> k] }

NoDip ==
    [pc |-> "unstarted", step_time |-> <<0, 1>>,
     gen |-> [pc |-> "unstarted", i |-> None],
     scale_factors |-> <<>>, params |-> <<>>, log |-> <<>>]

(***************************************************************************)
(* Initial state: nothing constructed, nothing called.                     *)
(***************************************************************************)
NoSelf ==
    [constructed |-> FALSE, x_dim |-> 0, y_dim |-> 0, tunneling |-> 0,
     coulomb |-> 0, periodic |-> FALSE, iterations |-> 0,
     adiabatic_evolution_time |-> <<0, 1>>, qubits |-> <<>>]

NoRet == [fn |-> "none"]

\* The two independent traversals of params() a caller holds.
Traversals == {1, 2}

Init ==
    /\ self = NoSelf
    /\ ret = NoRet
    /\ gens = [t \in Traversals |-> [g |-> [pc |-> "unstarted", i |-> None], out |-> <<>>]]
    /\ ops = [pc |-> "unstarted", i |-> None, qubits |-> 0, given |-> <<>>]
    /\ heap = <<>>
    /\ calls = <<>>
    /\ yielded = <<>>
    /\ evaluated = <<>>
    /\ dip = NoDip

(***************************************************************************)
(* Calls of the module-level helpers with explicit arguments.              *)
(***************************************************************************)
Dims == 1..MaxDim
Periods == {2, 4}

CallCanonicalize ==
    \E n \in (-MaxExp)..MaxExp, period \in Periods, k \in (-MaxShift)..MaxShift :
        /\ ret' = [fn |-> "_canonicalize_exponent",
                   exponent |-> Rat(n, ExpDen), period |-> period, k |-> k,
                   value |-> _canonicalize_exponent(Rat(n, ExpDen), period),
                   shifted |-> _canonicalize_exponent(
                       RAdd(Rat(n, ExpDen), RInt(k * period)), period)]
        /\ UNCHANGED <<self, gens, ops, heap, calls, yielded, evaluated, dip>>

CallRightNeighbor ==
    \E xd \in Dims, yd \in Dims, per \in BOOLEAN :
      \E site \in 0..(xd * yd - 1) :
        /\ ret' = [fn |-> "_right_neighbor", site |-> site, x_dim |-> xd,
                   y_dim |-> yd, periodic |-> per,
                   value |-> _right_neighbor(site, xd, yd, per)]
        /\ UNCHANGED <<self, gens, ops, heap, calls, yielded, evaluated, dip>>

CallBottomNeighbor ==
    \E xd \in Dims, yd \in Dims, per \in BOOLEAN :
      \E site \in 0..(xd * yd - 1) :
        /\ ret' = [fn |-> "_bottom_neighbor", site |-> site, x_dim |-> xd,
                   y_dim |-> yd, periodic |-> per,
                   value |-> _bottom_neighbor(site, xd, yd, per)]
        /\ UNCHANGED <<self, gens, ops, heap, calls, yielded, evaluated, dip>>

\* One adjacency reported to the callbacks: the three predicates and the
\* gates each callback emits for it.
CallInteraction ==
    \E xd \in Dims, yd \in Dims, per \in BOOLEAN :
      \E p \in 0..(2 * xd * yd - 1), q \in 0..(2 * xd * yd - 1) :
        LET s == [x_dim |-> xd, y_dim |-> yd, periodic |-> per]
        IN  /\ ret' = [fn |-> "interaction", p |-> p, q |-> q, x_dim |-> xd,
                       y_dim |-> yd, periodic |-> per,
                       horizontal |-> _is_horizontal_edge(p, q, xd, yd, per),
                       vertical |-> _is_vertical_edge(p, q, xd, yd, per),
                       same_site |-> _are_same_site_opposite_spin(p, q, xd * yd),
                       forward |-> one_and_two_body_interaction(p, q, p, q, 0, s),
                       reversed |-> one_and_two_body_interaction_reversed_order(
                                        p, q, p, q, 0, s)]
            /\ UNCHANGED <<self, gens, ops, heap, calls, yielded, evaluated, dip>>

NextCanon == CallCanonicalize
SpecCanon == Init /\ [][NextCanon]_vars

NextGeom == CallRightNeighbor \/ CallBottomNeighbor \/ CallInteraction
SpecGeom == Init /\ [][NextGeom]_vars

(***************************************************************************)
(* Construction of the ansatz and traversals of params().                  *)
(***************************************************************************)
\* Constructor arguments <<tunneling, coulomb, adiabatic_evolution_time>>.
PhysicalInputs == {<<1, 2, None>>, <<-3, -5, 7>>, <<2, 4, 3>>}

Construct ==
    /\ ~self.constructed
    /\ \E x \in 0..MaxDim, y \in 0..MaxDim, per \in BOOLEAN,
          it \in 0..MaxIter, ph \in PhysicalInputs :
          self' = __init__(x, y, ph[1], ph[2], per, it, ph[3])
    /\ UNCHANGED <<ret, gens, ops, heap, calls, yielded, evaluated, dip>>

\* self.params(): creates the generator; its body has not run yet.
ParamsCall(t) ==
    /\ self.constructed
    /\ gens[t].g.pc = "unstarted"
    /\ gens' = [gens EXCEPT ![t].g = NewGenerator]
    /\ UNCHANGED <<self, ret, ops, heap, calls, yielded, evaluated, dip>>

\* next() on traversal t; the caller appends what is yielded.
ParamsNext(t) ==
    /\ gens[t].g.pc \notin {"unstarted", "done"}
    /\ LET h == params_next(gens[t].g, self)
       IN  gens' = [gens EXCEPT ![t].g = h,
                                ![t].out = IF h.pc = "done" THEN @
                                           ELSE Append(@, Yielded(h))]
    /\ UNCHANGED <<self, ret, ops, heap, calls, yielded, evaluated, dip>>

NextParams ==
    \/ Construct
    \/ \E t \in Traversals : ParamsCall(t)
    \/ \E t \in Traversals : ParamsNext(t)
SpecParams == Init /\ [][NextParams]_vars

\* The letters of one iteration, in the claimed order.
C1_Letters ==
    (IF self.x_dim > 1 THEN <<"Th">> ELSE <<>>)
    \o (IF self.y_dim > 1 THEN <<"Tv">> ELSE <<>>)
    \o <<"V">>

\* C1: for x_dim, y_dim >= 1 a traversal of params() yields, for
\* i = 0 .. iterations-1 in ascending order, Th(i) iff x_dim > 1, Tv(i) iff
\* y_dim > 1, then V(i): a finished traversal has
\* iterations*(1[x_dim>1] + 1[y_dim>1] + 1) entries, none twice, and two
\* finished traversals agree.
C1_ParamsSequence ==
    (self.constructed /\ self.x_dim >= 1 /\ self.y_dim >= 1) =>
        LET m == Len(C1_Letters)
        IN  /\ \A t \in Traversals :
                  LET out == gens[t].out
                  IN  /\ \A k \in 1..Len(out) :
                            /\ out[k].subscripts = <<(k - 1) \div m>>
                            /\ out[k].letter = C1_Letters[((k - 1) % m) + 1]
                      /\ Len(out) <= self.iterations * m
                      /\ gens[t].g.pc = "done" => Len(out) = self.iterations * m
                      /\ \A j, k \in 1..Len(out) : out[j] = out[k] => j = k
            /\ m = BoolToInt(self.x_dim > 1) + BoolToInt(self.y_dim > 1) + 1
            /\ (gens[1].g.pc = "done" /\ gens[2].g.pc = "done") =>
                  gens[1].out = gens[2].out

\* Both traversals of a 2 x 1 lattice with two iterations have finished:
\* Th(0), V(0), Th(1), V(1), with Tv omitted.
C1_Witness ==
    /\ self.constructed /\ self.x_dim = 2 /\ self.y_dim = 1
    /\ self.iterations = 2
    /\ gens[1].g.pc = "done" /\ gens[2].g.pc = "done"
    /\ Len(gens[1].out) = 4
    /\ gens[2].out[3] = LetterWithSubscripts("Th", 1)

(***************************************************************************)
(* operations(): calls, resumptions and the consumer of what it yields.    *)
(***************************************************************************)
Rotate(seq) == [k \in 1..Len(seq) |-> seq[(k % Len(seq)) + 1]]

\* self.operations(Q): creates the generator; the caller's list is heap[1].
OperationsCall ==
    /\ self.constructed
    /\ ops.pc = "unstarted"
    /\ \E Q \in {self.qubits, Rotate(self.qubits)} :
          /\ heap' = <<Q>>
          /\ ops' = [pc |-> "start", i |-> None, qubits |-> 1, given |-> Q]
    /\ UNCHANGED <<self, ret, gens, calls, yielded, evaluated, dip>>

\* Lines 104-117: with the loop variable just set to i, call swap_network
\* with the first callback and yield its result.
YieldForward(i, h, ref) ==
    /\ heap' = h
    /\ ops' = [ops EXCEPT !.pc = "forward", !.i = i, !.qubits = ref]
    /\ calls' = Append(calls, [qubits |-> h[ref], fermionic |-> TRUE,
                              offset |-> FALSE, iteration |-> i,
                              operation |-> "one_and_two_body_interaction"])
    /\ yielded' = Append(yielded,
           swap_network(h[ref], "one_and_two_body_interaction", TRUE, FALSE))

\* The loop header of line 100 with candidate value i.
LoopHeader(i, h, ref) ==
    IF i < self.iterations
    THEN YieldForward(i, h, ref)
    ELSE /\ heap' = h
         /\ ops' = [ops EXCEPT !.pc = "done", !.qubits = ref]
         /\ UNCHANGED <<calls, yielded>>

\* First next(): from the top of the body to the first yield.
OperationsStart ==
    /\ ops.pc = "start"
    /\ LoopHeader(0, heap, ops.qubits)
    /\ UNCHANGED <<self, ret, gens, evaluated, dip>>

\* next() after the first yield of an iteration: lines 118-137.
OperationsResumeForward ==
    /\ ops.pc = "forward"
    /\ LET r == ReverseSlice(heap, ops.qubits)
       IN  /\ heap' = r.heap
           /\ ops' = [ops EXCEPT !.pc = "reversed", !.qubits = r.ref]
           /\ calls' = Append(calls,
                  [qubits |-> r.heap[r.ref], fermionic |-> TRUE,
                   offset |-> TRUE, iteration |-> ops.i,
                   operation |-> "one_and_two_body_interaction_reversed_order"])
           /\ yielded' = Append(yielded,
                  swap_network(r.heap[r.ref],
                      "one_and_two_body_interaction_reversed_order", TRUE, TRUE))
    /\ UNCHANGED <<self, ret, gens, evaluated, dip>>

\* next() after the second yield: line 138, then the loop header.
OperationsResumeReversed ==
    /\ ops.pc = "reversed"
    /\ LET r == ReverseSlice(heap, ops.qubits)
       IN  LoopHeader(ops.i + 1, r.heap, r.ref)
    /\ UNCHANGED <<self, ret, gens, evaluated, dip>>

\* The consumer flattens the oldest swap network it has not flattened yet;
\* the callbacks' bodies run now and read the loop variable as it is now.
ConsumerFlatten ==
    /\ Len(evaluated) < Len(yielded)
    /\ evaluated' = Append(evaluated,
                           Flatten(yielded[Len(evaluated) + 1], ops.i, self))
    /\ UNCHANGED <<self, ret, gens, ops, heap, calls, yielded, dip>>

NextOps ==
    \/ Construct
    \/ OperationsCall
    \/ OperationsStart
    \/ OperationsResumeForward
    \/ OperationsResumeReversed
    \/ ConsumerFlatten
SpecOps == Init /\ [][NextOps]_vars

(***************************************************************************)
(* Properties of operations() (under SpecOps).                     *)
(***************************************************************************)
\* C7 as stated: every gate of the callbacks built in iteration i carries
\* a parameter with subscript i (-Th(i), -Tv(i) or V(i)), whenever the
\* consumer iterates the callback results.
C7_SubscriptIsBuildIteration ==
    \A n \in 1..Len(evaluated) :
      \A l \in 1..Len(evaluated[n]) :
        \A k \in 1..Len(evaluated[n][l]) :
          \A j \in 1..Len(evaluated[n][l][k].gates) :
            LET g == evaluated[n][l][k].gates[j]
            IN  /\ g.sub = calls[n].iteration
                /\ g.sign = IF g.letter = "V" THEN 1 ELSE -1

\* What one layer of a yielded swap network does, adjacency by adjacency:
\* the two qubits, the two modes on them, the kinds of gates the callback
\* emits in emission order, and the swap.  With mirror, the emission order
\* is read backwards.
C8_Kinds(entry) ==
    LET gs == IterateCallback(entry, 0, self)
    IN  [j \in 1..Len(gs) |-> <<gs[j].gate, gs[j].letter>>]

C8_LayerView(layer, mirror) ==
    { [pair |-> {layer[k].a, layer[k].b},
       modes |-> {layer[k].p, layer[k].q},
       kinds |-> IF mirror THEN Reverse(C8_Kinds(layer[k]))
                           ELSE C8_Kinds(layer[k]),
       swap |-> layer[k].swap] : k \in 1..Len(layer) }

C10_TwoPassesAndFrame ==
    ops.pc # "unstarted" =>
        /\ \A n \in 1..Len(calls) :
              /\ calls[n].fermionic
              /\ calls[n].iteration = (n - 1) \div 2
              /\ calls[n].offset = (n % 2 = 0)
              /\ calls[n].qubits = IF n % 2 = 1 THEN ops.given
                                   ELSE Reverse(ops.given)
              /\ calls[n].operation =
                    IF n % 2 = 1 THEN "one_and_two_body_interaction"
                    ELSE "one_and_two_body_interaction_reversed_order"
        /\ Len(calls) = CASE ops.pc = "start" -> 0
                          [] ops.pc = "forward" -> 2 * ops.i + 1
                          [] ops.pc = "reversed" -> 2 * ops.i + 2
                          [] ops.pc = "done" -> 2 * self.iterations
        /\ heap[ops.qubits] = IF ops.pc = "reversed" THEN Reverse(ops.given)
                              ELSE ops.given
        /\ heap[1] = ops.given

\* operations() has finished two iterations over at least two qubits.
C10_Witness ==
    /\ ops.pc = "done"
    /\ self.iterations = 2
    /\ Len(calls) = 4
    /\ Len(ops.given) >= 2
    /\ ops.given # Reverse(ops.given)

(***************************************************************************)
(* default_initial_params(): the call and the iterations of its loop.      *)
(***************************************************************************)
\* Lines 163-167: step_time divides by self.iterations.
DefaultInitialParamsCall ==
    /\ self.constructed
    /\ dip.pc = "unstarted"
    /\ IF self.iterations = 0
       THEN dip' = [dip EXCEPT !.pc = "ZeroDivisionError"]
       ELSE \E sfs \in ParamScaleFactors(self) :
               dip' = [dip EXCEPT
                   !.pc = "loop",
                   !.step_time = RDiv(self.adiabatic_evolution_time,
                                      RInt(self.iterations)),
                   !.gen = NewGenerator,
                   !.scale_factors = sfs]
    /\ UNCHANGED <<self, ret, gens, ops, heap, calls, yielded, evaluated>>

\* One step of the zip: the next param, then the next scale factor, then
\* the body; the array is returned when either runs out.
DefaultInitialParamsStep ==
    /\ dip.pc = "loop"
    /\ LET h == params_next(dip.gen, self)
           k == Len(dip.params) + 1
       IN  IF h.pc = "done" \/ k > Len(dip.scale_factors)
           THEN dip' = [dip EXCEPT !.pc = "returned", !.gen = h]
           ELSE dip' = [dip EXCEPT
                   !.gen = h,
                   !.params = Append(@, DefaultParam(Yielded(h),
                                  dip.scale_factors[k], dip.step_time, self)),
                   !.log = Append(@,
                       [param |-> Yielded(h),
                        scale_factor |-> dip.scale_factors[k],
                        interpolation_progress |->
                            IF h.pc = "V"
                            THEN interpolation_progress(h.i, self.iterations)
                            ELSE <<0, 1>>])]
    /\ UNCHANGED <<self, ret, gens, ops, heap, calls, yielded, evaluated>>

NextDefault ==
    \/ Construct
    \/ DefaultInitialParamsCall
    \/ DefaultInitialParamsStep
SpecDefault == Init /\ [][NextDefault]_vars

\* C6 as stated: an ansatz with x_dim <= 0, y_dim <= 0 or iterations <= 0
\* is rejected by the constructor, so no constructed object holds such a
\* value and default_initial_params never divides by zero.
C6_NonPositiveArgumentsRejected ==
    /\ self.constructed =>
          (self.x_dim >= 1 /\ self.y_dim >= 1 /\ self.iterations >= 1)
    /\ dip.pc # "ZeroDivisionError"

\* The exponent before canonicalization, from the claim's formulas:
\* -tunneling*step_time/pi and -0.5*coulomb*progress_i*step_time/pi with
\* step_time = adiabatic_evolution_time/iterations.
C9_RawHop ==
    Rat(-self.tunneling * self.adiabatic_evolution_time[1] * numpy_pi[2],
        self.adiabatic_evolution_time[2] * self.iterations * numpy_pi[1])

C9_RawInteraction(i) ==
    Rat(-self.coulomb * (2 * i + 1) * self.adiabatic_evolution_time[1]
            * numpy_pi[2],
        2 * 2 * self.iterations * self.iterations
            * self.adiabatic_evolution_time[2] * numpy_pi[1])

\* u is the representative of raw in (-period/2, period/2]
C9_IsCanonical(u, raw, period) ==
    /\ RLt(Rat(-period, 2), u)
    /\ RLe(u, Rat(period, 2))
    /\ RIsMultiple(RSub(u, raw), period)

\* C9: for iterations >= 1, default_initial_params() returns one value per
\* parameter in params() order; value * scale_factor is the canonical
\* representative (period 4) of -tunneling*step_time/pi for every Th(i) and
\* Tv(i), and (period 2) of -0.5*coulomb*progress_i*step_time/pi for V(i),
\* where progress_i = (2i+1)/(2*iterations) lies strictly between 0 and 1,
\* increases with i and is the midpoint of the i-th segment (1/4 and 3/4
\* when iterations = 2).
C9_DefaultParams ==
    (dip.pc \in {"loop", "returned"} /\ self.iterations >= 1) =>
        LET m == Len(C1_Letters)
            its == self.iterations
        IN  /\ Len(dip.log) = Len(dip.params)
            /\ dip.pc = "returned" => Len(dip.params) = its * m
            /\ \A k \in 1..Len(dip.params) :
                  LET e == dip.log[k]
                      i == (k - 1) \div m
                      u == RMul(dip.params[k], RInt(e.scale_factor))
                      pr == e.interpolation_progress
                  IN  /\ e.param = LetterWithSubscripts(
                                       C1_Letters[((k - 1) % m) + 1], i)
                      /\ e.scale_factor = dip.scale_factors[k]
                      /\ e.param.letter \in {"Th", "Tv"} =>
                            C9_IsCanonical(u, C9_RawHop, 4)
                      /\ e.param.letter = "V" =>
                            /\ C9_IsCanonical(u, C9_RawInteraction(i), 2)
                            /\ pr = Rat(2 * i + 1, 2 * its)
                            /\ RLt(RInt(0), pr) /\ RLt(pr, RInt(1))
                            /\ RSub(pr, Rat(i, its)) = RSub(Rat(i + 1, its), pr)
                            /\ \A j \in 1..(k - 1) :
                                  dip.log[j].param.letter = "V" =>
                                      RLt(dip.log[j].interpolation_progress, pr)
                            /\ (its = 2 /\ i = 0) => pr = Rat(1, 4)
                            /\ (its = 2 /\ i = 1) => pr = Rat(3, 4)

\* The array was returned for the 2 x 2 lattice with tunneling 1, coulomb 2
\* and two iterations, scaled by distinct factors; V(1) used progress 3/4.
C9_Witness ==
    /\ dip.pc = "returned"
    /\ self.x_dim = 2 /\ self.y_dim = 2 /\ self.iterations = 2
    /\ self.tunneling = 1 /\ self.coulomb = 2
    /\ self.adiabatic_evolution_time = Rat(2, 5)
    /\ dip.step_time = Rat(1, 5)
    /\ Len(dip.params) = 6
    /\ dip.scale_factors[6] = 6
    /\ dip.log[6].interpolation_progress = Rat(3, 4)
    /\ dip.log[3].interpolation_progress = Rat(1, 4)

(***************************************************************************)
(* Properties of the lattice helpers (under SpecGeom).             *)
(***************************************************************************)
\* C2: for distinct qubit indices p, q at most one of the horizontal-edge,
\* vertical-edge and same-site-opposite-spin predicates is true, so each
\* callback emits at most one gate for the pair.
C2_PredicatesMutuallyExclusive ==
    (ret.fn = "interaction" /\ ret.p # ret.q) =>
        /\ BoolToInt(ret.horizontal) + BoolToInt(ret.vertical)
             + BoolToInt(ret.same_site) <= 1
        /\ Len(ret.forward) <= 1
        /\ Len(ret.reversed) <= 1

\* A vertical edge that wraps around a periodic two-row lattice, for which
\* the forward callback emits its one gate.
C2_Witness ==
    /\ ret.fn = "interaction"
    /\ ret.p # ret.q
    /\ ret.periodic /\ ret.x_dim = 2 /\ ret.y_dim = 2
    /\ ret.vertical
    /\ Len(ret.forward) = 1

IsNeighborCall == ret.fn \in {"_right_neighbor", "_bottom_neighbor"}
IsSite(v, xd, yd) == v \in 0..(xd * yd - 1)

\* C3 as stated: with periodic = true both neighbor functions return a
\* valid site for every x_dim >= 1 and y_dim >= 1.
C3_PeriodicAlwaysHasNeighbor ==
    (IsNeighborCall /\ ret.periodic) => IsSite(ret.value, ret.x_dim, ret.y_dim)

\* C3 amended: with periodic = true, _right_neighbor returns a valid site
\* whenever x_dim > 1 and _bottom_neighbor whenever y_dim > 1; a dimension
\* of 1 yields None even on a periodic lattice.
C3_PeriodicHasNeighborIfWide ==
    /\ (ret.fn = "_right_neighbor" /\ ret.periodic) =>
          IF ret.x_dim > 1 THEN IsSite(ret.value, ret.x_dim, ret.y_dim)
                           ELSE ret.value = None
    /\ (ret.fn = "_bottom_neighbor" /\ ret.periodic) =>
          IF ret.y_dim > 1 THEN IsSite(ret.value, ret.x_dim, ret.y_dim)
                           ELSE ret.value = None

\* The right neighbor of the last site of a periodic row wraps in range.
C3_Witness ==
    /\ ret.fn = "_right_neighbor"
    /\ ret.periodic /\ ret.x_dim > 1
    /\ (ret.site + 1) % ret.x_dim = 0
    /\ IsSite(ret.value, ret.x_dim, ret.y_dim)

\* C4: with site = row*x_dim + col, _right_neighbor is the next site of the
\* row, the start of the row at the right edge of a periodic lattice, None
\* at the right edge of an open lattice and None everywhere when x_dim = 1;
\* _bottom_neighbor is the same for the row below and y_dim.
C4_NeighborValues ==
    LET row == ret.site \div ret.x_dim
        col == ret.site % ret.x_dim
    IN  /\ ret.fn = "_right_neighbor" =>
              ret.value =
                IF ret.x_dim = 1 THEN None
                ELSE IF col < ret.x_dim - 1 THEN row * ret.x_dim + col + 1
                ELSE IF ret.periodic THEN row * ret.x_dim
                ELSE None
        /\ ret.fn = "_bottom_neighbor" =>
              ret.value =
                IF ret.y_dim = 1 THEN None
                ELSE IF row < ret.y_dim - 1 THEN (row + 1) * ret.x_dim + col
                ELSE IF ret.periodic THEN col
                ELSE None

\* The bottom neighbor of a last-row site in the second column of a
\* periodic lattice is that column's site of the first row.
C4_Witness ==
    /\ ret.fn = "_bottom_neighbor"
    /\ ret.periodic /\ ret.x_dim = 2 /\ ret.y_dim = 2
    /\ ret.site = 3
    /\ ret.value = 1

(***************************************************************************)
(* Properties of _canonicalize_exponent (under SpecCanon).         *)
(***************************************************************************)
\* C5: the result r lies in (-p/2, p/2], r - e is an integer multiple of
\* p, canonicalize(-2, 4) = 2, canonicalize(5, 4) = 1, and
\* canonicalize(e + k*p, p) = canonicalize(e, p).
C5_CanonicalRepresentative ==
    ret.fn = "_canonicalize_exponent" =>
        LET r == ret.value
            e == ret.exponent
            p == ret.period
        IN  /\ RLt(Rat(-p, 2), r)
            /\ RLe(r, Rat(p, 2))
            /\ RIsMultiple(RSub(r, e), p)
            /\ ret.shifted = r
            /\ (e = RInt(-2) /\ p = 4) => r = RInt(2)
            /\ (e = RInt(5) /\ p = 4) => r = RInt(1)

\* The boundary case: -2 reduces to -period/2 and is moved to +period/2.
C5_Witness ==
    /\ ret.fn = "_canonicalize_exponent"
    /\ ret.exponent = RInt(-2) /\ ret.period = 4
    /\ ret.k # 0
    /\ ret.value = RInt(2)

====
